---- MODULE Spec2Model ----
(***************************************************************************)
(* State-machine model of the reMarkable HWMON keyboard accessory driver   *)
(* (rm_hwmon_keyboard.c): the connect work (rm_hwmon_keyboard_register),   *)
(* the HSP packet callback, the key report path, the single-slot attribute *)
(* writer and driver removal.                                              *)
(*                                                                         *)
(* Execution contexts, each sequential in itself:                          *)
(*   worker  - kb_connect_work, runs rm_hwmon_keyboard_register            *)
(*   hsp     - the transport callback rm_hwmon_keyboard_hsp_event          *)
(*   writer  - attr_writer.worker, rm_hwmon_keyboard_attribute_writer      *)
(*   input   - the input core calling rm_hwmon_kb_event                    *)
(*   remove  - the driver core calling rm_hwmon_keyboard_remove            *)
(* Calls into the transport and the firmware-update library are external;  *)
(* their outcomes are nondeterministic inputs of the calling step.         *)
(***************************************************************************)
EXTENDS Integers, Sequences, FiniteSets, TLC

----------------------------------------------------------------------------
(* Bounds of the model *)

\* input devices that can exist at once; allocation fails beyond it
MaxDev == 2
\* key_layout values the accessory may report are 0..MaxLayoutAttr
MaxLayoutAttr == 1
\* firmware versions are <<1, minor>> with minor in 0..MaxMinor
MaxMinor == 1
\* row shifts a scan index is computed with are 0..MaxShift
MaxShift == 8
\* brightness array elements received are 0..MaxByte
MaxByte == 2

----------------------------------------------------------------------------
(* Program constants *)

ATTRIBUTES_NR_OF_BKLS == 6
\* widths of the packed key event fields row : 3 and column : 4
RowBits == 3
ColBits == 4
\* errno values returned by the driver
ENXIO == -6
EIO == -5
ENOMEM == -12
EACCES == -13
EBUSY == -16
ENODEV == -19
EINVAL == -22
EFAIL == -1

NULL == 0

\* rm_hwmon_keymap_v1: KEY(row, col, code), listed row by row, 16 per row
rm_hwmon_keymap_v1 ==
  <<
     << "M", "N", "EQUAL", "RESERVED", "GRAVE", "EQUAL", "RESERVED", "A",
        "RESERVED", "RESERVED", "3", "Y", "O", "RESERVED", "R", "RESERVED" >>,
     << "9", "RESERVED", "L", "RESERVED", "MINUS", "RESERVED", "DOT", "SLASH",
        "RESERVED", "RESERVED", "RESERVED", "END", "RESERVED", "SEMICOLON", "RESERVED", "RESERVED" >>,
     << "RESERVED", "RESERVED", "RESERVED", "RESERVED", "RIGHTMETA", "2", "RESERVED", "UP",
        "LEFTALT", "LEFT", "APOSTROPHE", "RESERVED", "RESERVED", "F", "ENTER", "RESERVED" >>,
     << "RESERVED", "B", "RESERVED", "LEFTSHIFT", "RESERVED", "6", "C", "RESERVED",
        "SPACE", "RESERVED", "X", "4", "U", "D", "RESERVED", "RESERVED" >>,
     << "W", "CAPSLOCK", "Z", "RIGHTSHIFT", "5", "RESERVED", "T", "RIGHT",
        "RESERVED", "DOWN", "RESERVED", "RESERVED", "K", "RESERVED", "RIGHTALT", "J" >>,
     << "G", "RESERVED", "8", "RESERVED", "ESC", "0", "S", "RESERVED",
        "RESERVED", "RESERVED", "E", "RESERVED", "V", "I", "COMMA", "LEFTCTRL" >>,
     << "H", "Q", "RESERVED", "RESERVED", "7", "MINUS", "BACKSLASH", "RESERVED",
        "BACKSPACE", "RESERVED", "P", "1", "RESERVED", "TAB", "RESERVED", "RESERVED" >>
  >>

\* keymap_layouts[]: one entry, 7 rows by 16 columns
keymap_layouts == << [keymap |-> rm_hwmon_keymap_v1, row |-> 7, col |-> 16] >>

RECURSIVE Pow2(_)
Pow2(n) == IF n = 0 THEN 1 ELSE 2 * Pow2(n - 1)

\* get_count_order(n): the order of the smallest power of two >= n
RECURSIVE CountOrderFrom(_, _)
CountOrderFrom(n, k) == IF Pow2(k) >= n THEN k ELSE CountOrderFrom(n, k + 1)
get_count_order(n) == CountOrderFrom(n, 0)

\* the row is not shifted
MATRIX_SCAN_CODE_NoShift(row, col, row_shift) == row + col

\* MATRIX_SCAN_CODE(row, col, row_shift) == ((row) << (row_shift)) + (col)
MATRIX_SCAN_CODE(row, col, row_shift) == row * Pow2(row_shift) + col

\* matrix_keypad_build_keymap allocates rows << row_shift key codes
KeycodeSize(layout) ==
  keymap_layouts[layout + 1].row * Pow2(get_count_order(keymap_layouts[layout + 1].col))

\* the key code the built table holds at a scan index inside the table
Keycode(layout, idx) ==
  LET shift == get_count_order(keymap_layouts[layout + 1].col)
      r == idx \div Pow2(shift)
      c == idx % Pow2(shift)
  IN  IF c < keymap_layouts[layout + 1].col
      THEN "KEY_" \o keymap_layouts[layout + 1].keymap[r + 1][c + 1]
      ELSE "KEY_RESERVED"

\* struct fw_version {major, minor}; memcmp over its two bytes
Versions == {<<1, m>> : m \in 0..MaxMinor}
Memcmp(a, b) ==
  IF a[1] # b[1] THEN a[1] - b[1]
  ELSE IF a[2] # b[2] THEN a[2] - b[2] ELSE 0

----------------------------------------------------------------------------
(* State *)

VARIABLES
  kb_dev,          \* pdata->kb_dev: NULL or the input device it points to
  devs,            \* input devices: registration state, LED capability bits, keycode table
  lock,            \* owner of kb_connect_lock: "none", "worker" or "hsp"
  ident,           \* key_layout, kb_row_shift, fwu.current_fw_version, fwu.header.fw_version
  lights,          \* rm_key_light, caps_key_light, rm_key_on_after_resume
  connect_pending, \* kb_connect_work is queued
  wk,              \* the connect work: position in rm_hwmon_keyboard_register and its locals
  log,             \* what the running connect sequence has done so far, in order
  req,             \* the authorize request of the transport: none, pending, ok, fail
  hsp,             \* the packet callback: position, command and what this call did
  aw,              \* attr_writer: request, attribute, payload, queued, worker position,
                   \* and the status of the last rm_hwmon_api_write_attribute
  nbufs,           \* write buffers allocated for attr_writer and not yet freed
  ev,              \* the last rm_hwmon_kb_event call: arguments, slot state at call, result
  rmv,             \* rm_hwmon_keyboard_remove: "idle", "null" or "done"
  scan,            \* one scan-index computation: event row and column, row shift, key
  rd,              \* bl_brightness_array, the string fields, and the last reader call
  pm               \* suspended or running, the input core's LED states, the last PM call

vars == << kb_dev, devs, lock, ident, lights, connect_pending, wk, log, req,
           hsp, aw, nbufs, ev, rmv, scan, rd, pm >>

DevIds == 1..MaxDev

\* a device that is not live: never allocated, or unregistered
DeadDev == [st |-> "unreg", caps |-> FALSE, misc |-> FALSE, keymap |-> FALSE]

WkIdle == [pc |-> "idle", ret |-> 0, auth_successful |-> FALSE,
           fw_upgraded |-> FALSE, input_dev_ok |-> FALSE, dev |-> NULL]

HspIdle == [pc |-> "idle", cmd |-> "none", dev |-> NULL, ret |-> 0,
            sched |-> 0, reports |-> 0, syncs |-> 0, idx |-> -1, live |-> FALSE,
            waited |-> FALSE]

\* no scan index computed: key is -1 until MATRIX_SCAN_CODE has run
NoScan == [row |-> 0, col |-> 0, shift |-> 0, selected |-> FALSE, key |-> -1]

\* the system runs, the LEDs of the input device are off, no PM callback called
NoPm == [phase |-> "run", led_caps |-> FALSE, led_misc |-> FALSE,
         op |-> "none", seq |-> 0, slumber |-> FALSE, alloc_ok |-> FALSE]

\* a string field that points to no buffer
NoStr == [buf |-> NULL, txt |-> ""]

\* the fields the readers write, zeroed by devm_kzalloc, and no reader called yet;
\* id and data are the attribute id and the boolean of the last indicator
\* attribute dispatched
NoRd == [bl |-> [i \in 1..ATTRIBUTES_NR_OF_BKLS |-> 0],
         device_name |-> NoStr, rm_serial_number |-> NoStr, cn_serial_number |-> NoStr,
         seq |-> 0, reader |-> "none", bad |-> FALSE, ret |-> FALSE,
         id |-> 0, data |-> FALSE]

NoEv == [called |-> FALSE, seq |-> 0, type |-> "none", code |-> "none", value |-> 0,
         slumber |-> FALSE, alloc_ok |-> FALSE, ret |-> 0]

\* the state after rm_hwmon_keyboard_probe: kb_data is zeroed by devm_kzalloc
Init ==
  /\ kb_dev = NULL
  /\ devs = [d \in DevIds |-> DeadDev]
  /\ lock = "none"
  /\ ident = [key_layout |-> 0, kb_row_shift |-> 0,
              cur_ver |-> <<0, 0>>, hdr_ver |-> <<0, 0>>]
  /\ lights = [rm |-> FALSE, caps |-> FALSE, resume |-> FALSE]
  /\ connect_pending = FALSE
  /\ wk = WkIdle
  /\ log = << >>
  /\ req = "none"
  /\ hsp = HspIdle
  /\ aw = [request |-> NULL, attribute |-> 0, data_length |-> 0, payload |-> 0,
           pending |-> FALSE, pc |-> "idle", wrote |-> 0, ret |-> 0]
  /\ nbufs = 0
  /\ ev = NoEv
  /\ rmv = "idle"
  /\ scan = NoScan
  /\ rd = NoRd
  /\ pm = NoPm

----------------------------------------------------------------------------
(* Helpers shared by the contexts *)

\* schedule_work(&kb_connect_work): queues the work unless it is queued already
ScheduleConnect == connect_pending' = TRUE

\* the surface pdata->kb_dev points to is a registered input device
Registered == kb_dev # NULL /\ devs[kb_dev].st = "reg"

\* the device is left as it is
ClearAndUnregister_Nothing(d) == devs

\* the LED_MISC bit is left set
ClearAndUnregister_KeepMisc(d) ==
  [devs EXCEPT ![d] = [DeadDev EXCEPT !.misc = devs[d].misc]]

\* __clear_bit(LED_CAPSL), __clear_bit(LED_MISC), input_unregister_device(d)
ClearAndUnregister(d) ==
  [devs EXCEPT ![d] = DeadDev]

\* device slots input_allocate_device may hand out: dead and referenced by nobody
FreeDevs == {d \in DevIds : devs[d].st = "unreg"}

Count(s, e) == Cardinality({i \in 1..Len(s) : s[i] = e})
Has(s, e) == \E i \in 1..Len(s) : s[i] = e

----------------------------------------------------------------------------
(* The connect work: rm_hwmon_keyboard_connect_event -> rm_hwmon_keyboard_register *)

WFrame == UNCHANGED << hsp, aw, nbufs, ev, rmv, scan, rd, pm >>

\* line 780: the input device is made now unless it was made after the first authorize
AfterAuthorized(w) ==
  IF ~w.input_dev_ok THEN [w EXCEPT !.pc = "mk_alloc"] ELSE [w EXCEPT !.pc = "unlock"]

\* the test of auth_successful at line 775 is missing
AfterNoUpgrade_NoAuthTest(w) == AfterAuthorized(w)

\* lines 763-784 once no firmware was upgraded: abort unless authorized
AfterNoUpgrade(w) ==
  IF ~w.auth_successful THEN [w EXCEPT !.pc = "fail"] ELSE [w EXCEPT !.pc = "unlock"]

\* the worker thread takes the queued kb_connect_work
W_Start ==
  /\ connect_pending /\ wk.pc = "idle"
  /\ connect_pending' = FALSE
  /\ wk' = [WkIdle EXCEPT !.pc = "lock"]
  /\ log' = << >>
  /\ UNCHANGED << kb_dev, devs, lock, ident, lights, req >> /\ WFrame

\* mutex_lock(&pdata->kb_connect_lock)
W_Lock ==
  /\ wk.pc = "lock" /\ lock = "none"
  /\ lock' = "worker"
  /\ wk' = [wk EXCEPT !.pc = "unreg"]
  /\ UNCHANGED << kb_dev, devs, ident, lights, connect_pending, log, req >> /\ WFrame

\* rm_hwmon_keyboard_unregister of a stale surface: clear bits, unregister
W_Unregister ==
  /\ wk.pc = "unreg"
  /\ IF kb_dev # NULL
     THEN /\ devs' = ClearAndUnregister(kb_dev)
          /\ wk' = [wk EXCEPT !.pc = "unreg_null"]
          /\ log' = Append(log, "stale_unreg")
     ELSE /\ wk' = [wk EXCEPT !.pc = "reset"]
          /\ UNCHANGED << devs, log >>
  /\ UNCHANGED << kb_dev, lock, ident, lights, connect_pending, req >> /\ WFrame

\* pdata->kb_dev = NULL of the stale surface
W_UnregisterNull ==
  /\ wk.pc = "unreg_null"
  /\ kb_dev' = NULL
  /\ wk' = [wk EXCEPT !.pc = "reset"]
  /\ UNCHANGED << devs, lock, ident, lights, connect_pending, log, req >> /\ WFrame

\* rm_key_light = caps_key_light = rm_key_on_after_resume = false
W_Reset ==
  /\ wk.pc = "reset"
  /\ lights' = [rm |-> FALSE, caps |-> FALSE, resume |-> FALSE]
  /\ wk' = [wk EXCEPT !.pc = "read"]
  /\ log' = Append(log, "reset")
  /\ UNCHANGED << kb_dev, devs, lock, ident, connect_pending, req >> /\ WFrame

\* the first read is followed by the image check, no authorize request is sent
ReadInit_NoAuthorize(name, next_ok, next_fail) ==
  \/ \E kl \in 0..MaxLayoutAttr, v \in Versions :
       /\ ident' = [ident EXCEPT !.key_layout = kl, !.cur_ver = v]
       /\ wk' = [wk EXCEPT !.pc = IF name = "read" THEN "fw_check" ELSE next_ok,
                           !.ret = 0]
       /\ log' = Append(log, name \o "_ok")
  \/ /\ wk' = [wk EXCEPT !.pc = next_fail, !.ret = EIO]
     /\ log' = Append(log, name \o "_fail")
     /\ UNCHANGED ident

\* rm_hwmon_keyboard_read_init_attributes: on success the readers have stored
\* what the accessory reports (reader_key_layout, reader_fw_version)
ReadInit(name, next_ok, next_fail) ==
  \/ \E kl \in 0..MaxLayoutAttr, v \in Versions :
       /\ ident' = [ident EXCEPT !.key_layout = kl, !.cur_ver = v]
       /\ wk' = [wk EXCEPT !.pc = next_ok, !.ret = 0]
       /\ log' = Append(log, name \o "_ok")
  \/ /\ wk' = [wk EXCEPT !.pc = next_fail, !.ret = EIO]
     /\ log' = Append(log, name \o "_fail")
     /\ UNCHANGED ident

W_ReadInit ==
  /\ wk.pc = "read"
  /\ ReadInit("read", "auth_send", "unlock")
  /\ UNCHANGED << kb_dev, devs, lock, lights, connect_pending, req >> /\ WFrame

\* rm_hwmon_api_write_cmd(HSP_CMD_ACCS_AUTHORIZE_REQUEST): the request goes out
W_AuthSend ==
  /\ wk.pc = "auth_send"
  /\ req' = "pending"
  /\ wk' = [wk EXCEPT !.pc = "auth_wait"]
  /\ log' = Append(log, "auth_req")
  /\ UNCHANGED << kb_dev, devs, lock, ident, lights, connect_pending >> /\ WFrame

\* what write_cmd returns: the status the reply completed the request with, or a
\* transport error when no reply completes it
AuthResult == IF req = "ok" THEN 0 ELSE IF req = "fail" THEN EACCES ELSE EIO

\* a failed re-authorize after an update does not abort
AfterAuth_IgnoreReauth(w, r) ==
  IF r = 0
  THEN [w EXCEPT !.ret = 0, !.pc = IF w.fw_upgraded THEN "bright" ELSE "mk_alloc"]
  ELSE [w EXCEPT !.ret = r, !.pc = IF w.fw_upgraded THEN "bright" ELSE "fw_check"]

\* lines 737-746 and 766-769: the branch on the authorize status
AfterAuth(w, r) ==
  IF r = 0
  THEN [w EXCEPT !.ret = 0, !.pc = IF w.fw_upgraded THEN "bright" ELSE "mk_alloc"]
  ELSE [w EXCEPT !.ret = r, !.pc = IF w.fw_upgraded THEN "fail" ELSE "fw_check"]

W_AuthWait ==
  /\ wk.pc = "auth_wait"
  /\ wk' = AfterAuth(wk, AuthResult)
  /\ req' = "none"
  /\ log' = Append(log, IF AuthResult = 0 THEN "auth_ok" ELSE "auth_fail")
  /\ UNCHANGED << kb_dev, devs, lock, ident, lights, connect_pending >> /\ WFrame

\* key_layout >= ARRAY_SIZE(keymap_layouts) falls back to layout 0
LayoutFix(id) ==
  IF id.key_layout >= Len(keymap_layouts) THEN [id EXCEPT !.key_layout = 0] ELSE id

\* rm_hwmon_keyboard_make_input_dev up to input_set_drvdata: kb_dev = NULL, layout
\* check, input_allocate_device, then pdata->kb_dev = kb_dev and kb_row_shift
W_MkAlloc ==
  /\ wk.pc = "mk_alloc"
  /\ \/ \E d \in FreeDevs :
          /\ kb_dev' = d
          /\ devs' = [devs EXCEPT ![d] = [DeadDev EXCEPT !.st = "alloc"]]
          /\ ident' = [LayoutFix(ident) EXCEPT !.kb_row_shift =
                         get_count_order(keymap_layouts[LayoutFix(ident).key_layout + 1].col)]
          /\ wk' = [wk EXCEPT !.pc = "mk_keymap", !.dev = d]
          /\ log' = log
     \/ /\ kb_dev' = NULL
        /\ ident' = LayoutFix(ident)
        /\ wk' = [wk EXCEPT !.pc = "fail", !.ret = EINVAL]
        /\ log' = Append(log, "mkdev_fail")
        /\ UNCHANGED devs
  /\ UNCHANGED << lock, lights, connect_pending, req >> /\ WFrame

\* matrix_keypad_build_keymap on the local kb_dev
W_MkKeymap ==
  /\ wk.pc = "mk_keymap"
  /\ \/ /\ devs' = [devs EXCEPT ![wk.dev].keymap = TRUE]
        /\ wk' = [wk EXCEPT !.pc = "mk_register"]
        /\ log' = log
     \/ /\ wk' = [wk EXCEPT !.pc = "fail", !.ret = ENOMEM]
        /\ log' = Append(log, "mkdev_fail")
        /\ UNCHANGED devs
  /\ UNCHANGED << kb_dev, lock, ident, lights, connect_pending, req >> /\ WFrame

\* make_input_dev succeeded after the first authorize, brightness is never sent
AfterMkOk_NoBrightness(w) ==
  IF w.fw_upgraded
  THEN [w EXCEPT !.pc = "unlock", !.ret = 0]
  ELSE [w EXCEPT !.pc = "fw_check", !.ret = 0,
                 !.input_dev_ok = TRUE, !.auth_successful = TRUE]

\* the check of make_input_dev's status at line 782 is inverted
AfterMkOk_InvertedCheck(w) ==
  IF w.fw_upgraded
  THEN [w EXCEPT !.pc = "fail", !.ret = 0]
  ELSE [w EXCEPT !.pc = "bright", !.ret = 0,
                 !.input_dev_ok = TRUE, !.auth_successful = TRUE]

\* the return sites of make_input_dev: line 740 (first authorize) and line 781
AfterMkOk(w) ==
  IF w.fw_upgraded
  THEN [w EXCEPT !.pc = "unlock", !.ret = 0]
  ELSE [w EXCEPT !.pc = "bright", !.ret = 0,
                 !.input_dev_ok = TRUE, !.auth_successful = TRUE]

\* input_set_capability(LED_CAPSL, LED_MISC) and input_register_device
W_MkRegister ==
  /\ wk.pc = "mk_register"
  /\ \/ /\ devs' = [devs EXCEPT ![wk.dev] =
                      [@ EXCEPT !.caps = TRUE, !.misc = TRUE, !.st = "reg"]]
        /\ wk' = AfterMkOk(wk)
        /\ log' = Append(log, "mkdev_ok")
     \/ /\ devs' = [devs EXCEPT ![wk.dev] = [@ EXCEPT !.caps = TRUE, !.misc = TRUE]]
        /\ wk' = [wk EXCEPT !.pc = "fail", !.ret = EIO]
        /\ log' = Append(log, "mkdev_fail")
  /\ UNCHANGED << kb_dev, lock, ident, lights, connect_pending, req >> /\ WFrame

\* rm_hwmon_keyboard_set_brightness: r is ENOMEM when the write buffer cannot be
\* allocated (nothing is written), else the status of rm_hwmon_api_write_attribute
SetBrightnessLog(l, r) ==
  IF r = ENOMEM THEN Append(Append(l, "bright_call"), "bright_nomem")
  ELSE Append(Append(l, "bright_call"), "bright_write")

\* lines 747-749 and 771-773: the result is only warned about
AfterBright(w, r) ==
  IF w.fw_upgraded THEN AfterAuthorized([w EXCEPT !.ret = r])
  ELSE [w EXCEPT !.ret = r, !.pc = "fw_check"]

W_SetBrightness ==
  /\ wk.pc = "bright"
  /\ \E r \in {0, ENOMEM, EIO} :
       /\ wk' = AfterBright(wk, r)
       /\ log' = SetBrightnessLog(log, r)
  /\ UNCHANGED << kb_dev, devs, lock, ident, lights, connect_pending, req >> /\ WFrame

\* rm_hwmon_fwu_load_and_check_for_upgrade: an eligible image loads its header
W_FwCheck ==
  /\ wk.pc = "fw_check"
  /\ \/ \E hv \in Versions :
          /\ ident' = [ident EXCEPT !.hdr_ver = hv]
          /\ wk' = [wk EXCEPT !.pc = "fwu_init"]
          /\ log' = Append(log, "img")
     \/ /\ wk' = AfterNoUpgrade(wk)
        /\ log' = Append(log, "no_img")
        /\ UNCHANGED ident
  /\ UNCHANGED << kb_dev, devs, lock, lights, connect_pending, req >> /\ WFrame

\* a failed step is followed by the next step
FwuStep_NoShortCircuit(here, name, next) ==
  /\ wk.pc = here
  /\ \/ /\ wk' = [wk EXCEPT !.pc = next, !.ret = 0]
        /\ log' = Append(log, name \o "_ok")
     \/ /\ wk' = [wk EXCEPT !.pc = next, !.ret = EIO]
        /\ log' = Append(log, name \o "_fail")
  /\ UNCHANGED << kb_dev, devs, lock, ident, lights, connect_pending, req >> /\ WFrame

\* one step of rm_hwmon_keyboard_update_fwu that calls the update library:
\* a failure returns its error at once
FwuStep(here, name, next) ==
  /\ wk.pc = here
  /\ \/ /\ wk' = [wk EXCEPT !.pc = next, !.ret = 0]
        /\ log' = Append(log, name \o "_ok")
     \/ /\ wk' = [wk EXCEPT !.pc = "fwu_release", !.ret = EIO]
        /\ log' = Append(log, name \o "_fail")
  /\ UNCHANGED << kb_dev, devs, lock, ident, lights, connect_pending, req >> /\ WFrame

W_FwuInit == FwuStep("fwu_init", "fwu_init", "fwu_transfer")
W_FwuTransfer == FwuStep("fwu_transfer", "fwu_transfer", "fwu_validate")
W_FwuValidate == FwuStep("fwu_validate", "fwu_validate", "fwu_reread")

\* the attribute re-read after validation
W_FwuReread ==
  /\ wk.pc = "fwu_reread"
  /\ ReadInit("fwu_reread", "fwu_compare", "fwu_release")
  /\ UNCHANGED << kb_dev, devs, lock, lights, connect_pending, req >> /\ WFrame

\* only the major byte of the versions is compared
FwuCompare_MajorOnly(id) == id.hdr_ver[1] - id.cur_ver[1]

\* memcmp(&fwu.header.fw_version, &fwu.current_fw_version, sizeof(struct fw_version))
FwuCompare(id) == Memcmp(id.hdr_ver, id.cur_ver)

W_FwuCompare ==
  /\ wk.pc = "fwu_compare"
  /\ wk' = [wk EXCEPT !.ret = FwuCompare(ident),
                      !.pc = IF FwuCompare(ident) # 0 THEN "fwu_release"
                             ELSE "fwu_activate"]
  /\ log' = Append(log, IF ident.hdr_ver = ident.cur_ver THEN "fwu_ver_same"
                         ELSE "fwu_ver_differ")
  /\ UNCHANGED << kb_dev, devs, lock, ident, lights, connect_pending, req >> /\ WFrame

\* rm_hwmon_fwu_set_image_active; its status is what update_fwu returns
W_FwuActivate ==
  /\ wk.pc = "fwu_activate"
  /\ \E r \in {0, EIO} :
       /\ wk' = [wk EXCEPT !.pc = "fwu_release", !.ret = r]
       /\ log' = Append(log, IF r = 0 THEN "fwu_activate_ok" ELSE "fwu_activate_fail")
  /\ UNCHANGED << kb_dev, devs, lock, ident, lights, connect_pending, req >> /\ WFrame

\* lines 754-778: release the image; fw_upgraded when update_fwu returned 0
AfterFwu(w) ==
  IF w.ret = 0 THEN [w EXCEPT !.fw_upgraded = TRUE, !.pc = "auth_send"]
  ELSE AfterNoUpgrade(w)

W_FwuRelease ==
  /\ wk.pc = "fwu_release"
  /\ wk' = AfterFwu(wk)
  /\ log' = Append(log, IF wk.ret = 0 THEN "fwu_returned_0" ELSE "fwu_returned_error")
  /\ UNCHANGED << kb_dev, devs, lock, ident, lights, connect_pending, req >> /\ WFrame

\* kb_fail_register: clear the bits of and unregister whatever kb_dev points to
W_FailUnregister ==
  /\ wk.pc = "fail"
  /\ devs' = IF kb_dev # NULL THEN ClearAndUnregister(kb_dev) ELSE devs
  /\ wk' = [wk EXCEPT !.pc = "fail_null"]
  /\ UNCHANGED << kb_dev, lock, ident, lights, connect_pending, log, req >> /\ WFrame

\* pdata->kb_dev = NULL
W_FailNull ==
  /\ wk.pc = "fail_null"
  /\ kb_dev' = NULL
  /\ wk' = [wk EXCEPT !.pc = "unlock"]
  /\ UNCHANGED << devs, lock, ident, lights, connect_pending, log, req >> /\ WFrame

\* unlock_mutex: mutex_unlock, register returns ret and the work item is finished
W_Unlock ==
  /\ wk.pc = "unlock"
  /\ lock' = "none"
  /\ wk' = WkIdle
  /\ log' = << >>
  /\ UNCHANGED << kb_dev, devs, ident, lights, connect_pending, req >> /\ WFrame

----------------------------------------------------------------------------
(* The packet callback: rm_hwmon_keyboard_hsp_event *)

HFrame == UNCHANGED << ident, lights, wk, log, aw, nbufs, ev, rmv, scan, rd, pm >>

\* packets reach the callback while the endpoint is registered and no call is running
HspReady == hsp.pc = "idle" /\ rmv # "done"

\* HSP_CMD_ACCS_CONNECT: schedule_work(&kb_connect_work)
H_Connect ==
  /\ HspReady
  /\ ScheduleConnect
  /\ hsp' = [HspIdle EXCEPT !.pc = "ret", !.cmd = "connect", !.sched = 1]
  /\ UNCHANGED << kb_dev, devs, lock, req >> /\ HFrame

\* HSP_CMD_ACCS_DISCONNECT arrives: the callback goes for the mutex
H_Disconnect ==
  /\ HspReady
  /\ hsp' = [HspIdle EXCEPT !.pc = "disc_lock", !.cmd = "disconnect",
                            !.waited = (lock = "worker")]
  /\ UNCHANGED << kb_dev, devs, lock, connect_pending, req >> /\ HFrame

\* the callback does not wait for the mutex
H_DiscLock_NoWait ==
  /\ hsp.pc = "disc_lock"
  /\ lock' = "hsp"
  /\ hsp' = [hsp EXCEPT !.pc = "disc_unreg"]
  /\ UNCHANGED << kb_dev, devs, connect_pending, req >> /\ HFrame

\* mutex_lock(&kb_data->kb_connect_lock)
H_DiscLock ==
  /\ hsp.pc = "disc_lock" /\ lock = "none"
  /\ lock' = "hsp"
  /\ hsp' = [hsp EXCEPT !.pc = "disc_unreg"]
  /\ UNCHANGED << kb_dev, devs, connect_pending, req >> /\ HFrame

\* rm_hwmon_keyboard_unregister: clear bits, input_unregister_device
H_DiscUnregister ==
  /\ hsp.pc = "disc_unreg"
  /\ IF kb_dev # NULL
     THEN /\ devs' = ClearAndUnregister(kb_dev)
          /\ hsp' = [hsp EXCEPT !.pc = "disc_null", !.dev = kb_dev]
     ELSE /\ hsp' = [hsp EXCEPT !.pc = "disc_unlock"]
          /\ UNCHANGED devs
  /\ UNCHANGED << kb_dev, lock, connect_pending, req >> /\ HFrame

\* pdata->kb_dev = NULL
H_DiscNull ==
  /\ hsp.pc = "disc_null"
  /\ kb_dev' = NULL
  /\ hsp' = [hsp EXCEPT !.pc = "disc_unlock"]
  /\ UNCHANGED << devs, lock, connect_pending, req >> /\ HFrame

\* mutex_unlock; the callback returns 0
H_DiscUnlock ==
  /\ hsp.pc = "disc_unlock"
  /\ lock' = "none"
  /\ hsp' = [hsp EXCEPT !.pc = "ret"]
  /\ UNCHANGED << kb_dev, devs, connect_pending, req >> /\ HFrame

\* the connect work is not scheduled
KeyNotReady_NoSchedule(h) == [h EXCEPT !.pc = "ret", !.ret = ENXIO]

\* lines 821-825: no surface, so schedule the connect work and return -ENXIO
KeyNotReady(h) == [h EXCEPT !.pc = "ret", !.sched = 1, !.ret = ENXIO]

\* HSP_CMD_KEY_EVENT, rm_hwmon_keyboard_report line 821: the NULL check
H_KeyCheck ==
  /\ HspReady
  /\ IF kb_dev = NULL
     THEN hsp' = KeyNotReady([HspIdle EXCEPT !.cmd = "key"])
     ELSE hsp' = [HspIdle EXCEPT !.pc = "key_report", !.cmd = "key", !.dev = kb_dev]
  /\ connect_pending' = (connect_pending \/ hsp'.sched > 0)
  /\ UNCHANGED << kb_dev, devs, lock, req >> /\ HFrame

\* the rows and columns a key event packet can carry
KeyRows == 0..(Pow2(RowBits) - 1)
KeyCols == {0, Pow2(ColBits) - 1}

\* lines 827-835: keymap lookup, input_report_key, input_sync on the device d
KeyReport(h, d, row, col) ==
  [h EXCEPT !.pc = "ret", !.dev = NULL, !.ret = 0, !.reports = 1, !.syncs = 1,
            !.idx = MATRIX_SCAN_CODE(row, col, ident.kb_row_shift),
            !.live = (devs[d].st = "reg")]

\* pdata->kb_dev is read again without the lock: the build may reuse the pointer
\* the check loaded or load it afresh; a NULL loaded here is dereferenced
H_KeyReport ==
  /\ hsp.pc = "key_report"
  /\ \E d \in {hsp.dev, kb_dev}, row \in KeyRows, col \in KeyCols :
       hsp' = IF d = NULL THEN [hsp EXCEPT !.pc = "oops", !.dev = NULL]
              ELSE KeyReport(hsp, d, row, col)
  /\ UNCHANGED << kb_dev, devs, lock, connect_pending, req >> /\ HFrame

\* HSP_CMD_ACCS_AUTHORIZE_REQUEST reply: rm_hwmon_api_req_complete(ret)
H_AuthReply ==
  /\ HspReady
  /\ \E ok \in BOOLEAN :
       /\ req' = IF req = "pending" THEN (IF ok THEN "ok" ELSE "fail") ELSE req
       /\ hsp' = [HspIdle EXCEPT !.pc = "ret", !.cmd = "auth_reply",
                                 !.ret = IF ok THEN 0 ELSE EACCES]
  /\ UNCHANGED << kb_dev, devs, lock, connect_pending >> /\ HFrame

\* any other command: ret = -ENODEV
H_Other ==
  /\ HspReady
  /\ hsp' = [HspIdle EXCEPT !.pc = "ret", !.cmd = "other", !.ret = ENODEV]
  /\ UNCHANGED << kb_dev, devs, lock, connect_pending, req >> /\ HFrame

\* the callback returns ret
H_Return ==
  /\ hsp.pc = "ret"
  /\ hsp' = HspIdle
  /\ UNCHANGED << kb_dev, devs, lock, connect_pending, req >> /\ HFrame

----------------------------------------------------------------------------
(* Driver removal: rm_hwmon_keyboard_remove *)

RFrame == UNCHANGED << lock, ident, lights, connect_pending, wk, log, req,
                       hsp, aw, nbufs, ev, scan, rd, pm >>

\* rm_hwmon_keyboard_unregister called without kb_connect_lock
R_Unregister ==
  /\ rmv = "idle"
  /\ IF kb_dev # NULL
     THEN devs' = ClearAndUnregister(kb_dev) /\ rmv' = "null"
     ELSE rmv' = "done" /\ UNCHANGED devs
  /\ UNCHANGED kb_dev /\ RFrame

\* pdata->kb_dev = NULL, then the attributes and the endpoint are removed
R_Null ==
  /\ rmv = "null"
  /\ kb_dev' = NULL
  /\ rmv' = "done"
  /\ UNCHANGED devs /\ RFrame

----------------------------------------------------------------------------
(* The single-slot attribute writer: rm_hwmon_kb_event and the writer work *)

KB_ATTR_ID_KEY_LIGHT_CAPS == 83
KB_ATTR_ID_KEY_LIGHT_RM == 84

EvTypes == {"EV_LED", "EV_REP"}
LedCodes == {"LED_CAPSL", "LED_MISC", "LED_NUML"}

\* the switch on code at lines 579-590
LedAttribute(code) ==
  IF code = "LED_CAPSL" THEN KB_ATTR_ID_KEY_LIGHT_CAPS ELSE KB_ATTR_ID_KEY_LIGHT_RM

\* lines 613-623: the cached state of the indicator follows the value
LedCache(l, code, value) ==
  IF code = "LED_CAPSL" THEN [l EXCEPT !.caps = (value # 0)]
  ELSE [l EXCEPT !.rm = (value # 0)]

\* the busy check is missing
SlotBusy_Never(a) == FALSE

\* line 592: a request is still in the slot
SlotBusy(a) == a.request # NULL

\* the off transition is not suppressed when slumber is pending
KbEvent_NoSuppress(type, code, value, slumber, alloc_ok) ==
  LET same == [aw |-> aw, nbufs |-> nbufs, lights |-> lights]
      a1 == [aw EXCEPT !.attribute = LedAttribute(code)]
  IN  IF type # "EV_LED" THEN [same EXCEPT !.aw = aw] @@ [ret |-> EFAIL]
      ELSE IF code \notin {"LED_CAPSL", "LED_MISC"} THEN same @@ [ret |-> EFAIL]
      ELSE IF SlotBusy(a1) THEN [same EXCEPT !.aw = a1] @@ [ret |-> EBUSY]
      ELSE IF ~alloc_ok
        THEN [same EXCEPT !.aw = [a1 EXCEPT !.data_length = 1]] @@ [ret |-> ENOMEM]
      ELSE IF a1.pending
        THEN [same EXCEPT !.aw = [a1 EXCEPT !.data_length = 1]] @@ [ret |-> EFAIL]
      ELSE [aw |-> [a1 EXCEPT !.data_length = 1, !.request = 1,
                              !.payload = value, !.pending = TRUE],
            nbufs |-> nbufs + 1,
            lights |-> LedCache(lights, code, value),
            ret |-> 0]

\* rm_hwmon_kb_event(dev, type, code, value): the slot, the buffers, the cached
\* lights and the status it leaves. slumber is next_suspend_is_slumber, alloc_ok
\* whether rm_hwmon_api_alloc_write_buffer returns a buffer.
KbEvent(type, code, value, slumber, alloc_ok) ==
  LET same == [aw |-> aw, nbufs |-> nbufs, lights |-> lights]
      a1 == [aw EXCEPT !.attribute = LedAttribute(code)]
  IN  IF type # "EV_LED" THEN [same EXCEPT !.aw = aw] @@ [ret |-> EFAIL]
      ELSE IF code \notin {"LED_CAPSL", "LED_MISC"} THEN same @@ [ret |-> EFAIL]
      ELSE IF SlotBusy(a1) THEN [same EXCEPT !.aw = a1] @@ [ret |-> EBUSY]
      ELSE IF value = 0 /\ slumber THEN [same EXCEPT !.aw = a1] @@ [ret |-> 0]
      ELSE IF ~alloc_ok
        THEN [same EXCEPT !.aw = [a1 EXCEPT !.data_length = 1]] @@ [ret |-> ENOMEM]
      ELSE IF a1.pending
        THEN [same EXCEPT !.aw = [a1 EXCEPT !.data_length = 1]] @@ [ret |-> EFAIL]
      ELSE [aw |-> [a1 EXCEPT !.data_length = 1, !.request = 1,
                              !.payload = value, !.pending = TRUE],
            nbufs |-> nbufs + 1,
            lights |-> LedCache(lights, code, value),
            ret |-> 0]

LFrame == UNCHANGED << kb_dev, devs, lock, ident, connect_pending, wk, log, req,
                       hsp, rmv, scan, rd, pm >>

\* the input core passes an event to the registered device's event callback
E_Event ==
  /\ \E d \in DevIds : devs[d].st = "reg"
  /\ \E type \in EvTypes, code \in LedCodes, value \in {0, 1},
        slumber \in BOOLEAN, alloc_ok \in BOOLEAN :
       LET r == KbEvent(type, code, value, slumber, alloc_ok)
       IN  /\ aw' = r.aw
           /\ nbufs' = r.nbufs
           /\ lights' = r.lights
           /\ ev' = [called |-> TRUE, seq |-> 1 - ev.seq, type |-> type,
                     code |-> code, value |-> value, slumber |-> slumber,
                     alloc_ok |-> alloc_ok, ret |-> r.ret]
  /\ LFrame

\* rm_hwmon_keyboard_attribute_writer up to the warning: the queued work runs
\* and writes the request in the slot to the attribute the slot names; the
\* write returns 0 or a transport error, which is only warned about
A_Write ==
  /\ aw.pending /\ aw.pc = "idle"
  /\ IF aw.request # NULL
     THEN \E r \in {0, EIO} :
            aw' = [aw EXCEPT !.pending = FALSE, !.pc = "free",
                             !.wrote = aw.attribute, !.ret = r]
     ELSE aw' = [aw EXCEPT !.pending = FALSE]
  /\ UNCHANGED << nbufs, lights, ev >> /\ LFrame

\* the request stays in the slot when the writer is done
A_Free_KeepRequest ==
  /\ aw.pc = "free"
  /\ aw' = [aw EXCEPT !.pc = "idle", !.wrote = 0]
  /\ UNCHANGED << nbufs, lights, ev >> /\ LFrame

\* kfree(request); request = NULL, whatever the write returned
A_Free ==
  /\ aw.pc = "free"
  /\ aw' = [aw EXCEPT !.request = NULL, !.payload = 0, !.pc = "idle", !.wrote = 0]
  /\ nbufs' = nbufs - 1
  /\ UNCHANGED << lights, ev >> /\ LFrame

Writer == E_Event \/ A_Write \/ A_Free

----------------------------------------------------------------------------
(* Suspend and resume: rm_hwmon_kb_led_save and rm_hwmon_kb_led_load *)

\* the LED state the input core keeps for the device (dev->led)
LedBit(p, code) == IF code = "LED_CAPSL" THEN p.led_caps ELSE p.led_misc

\* input_event(dev, EV_LED, code, value): the core passes the event to
\* dev->event only when it changes the LED state it keeps, and records the change
CorePasses(p, code, value) == LedBit(p, code) # (value # 0)

CoreLed(p, code, value) ==
  IF code = "LED_CAPSL" THEN [p EXCEPT !.led_caps = (value # 0)]
  ELSE [p EXCEPT !.led_misc = (value # 0)]

\* a PM callback or an LED change is the last call: its number, kind and inputs
PmCalled(p, op, slumber, alloc_ok) ==
  [p EXCEPT !.op = op, !.seq = 1 - pm.seq, !.slumber = slumber, !.alloc_ok = alloc_ok]

\* input_event from the callbacks and from user space: what rm_hwmon_kb_event
\* leaves when the core passes the event, and nothing changed when it does not
InputEvent(code, value, slumber, alloc_ok) ==
  IF CorePasses(pm, code, value)
  THEN KbEvent("EV_LED", code, value, slumber, alloc_ok)
         @@ [passed |-> TRUE, pm |-> CoreLed(pm, code, value)]
  ELSE [aw |-> aw, nbufs |-> nbufs, lights |-> lights, ret |-> 0,
        passed |-> FALSE, pm |-> pm]

\* what a call of rm_hwmon_kb_event leaves in ev
EvCalled(r, code, value, slumber, alloc_ok) ==
  IF r.passed
  THEN [called |-> TRUE, seq |-> 1 - ev.seq, type |-> "EV_LED", code |-> code,
        value |-> value, slumber |-> slumber, alloc_ok |-> alloc_ok, ret |-> r.ret]
  ELSE ev

PFrame == UNCHANGED << kb_dev, devs, lock, ident, connect_pending, wk, log, req,
                       hsp, rmv, scan, rd >>

\* user space changes an LED of the registered input device
P_UserLed ==
  /\ pm.phase = "run" /\ Registered
  /\ \E code \in {"LED_CAPSL", "LED_MISC"}, value \in {0, 1},
        slumber \in BOOLEAN, alloc_ok \in BOOLEAN :
       LET r == InputEvent(code, value, slumber, alloc_ok)
       IN  /\ r.passed
           /\ aw' = r.aw /\ nbufs' = r.nbufs /\ lights' = r.lights
           /\ ev' = EvCalled(r, code, value, slumber, alloc_ok)
           /\ pm' = PmCalled(r.pm, "user", slumber, alloc_ok)
  /\ PFrame

\* rm_hwmon_kb_led_save (.suspend, .freeze)
P_Save ==
  /\ pm.phase = "run"
  /\ \E slumber \in BOOLEAN, alloc_ok \in BOOLEAN :
       IF kb_dev # NULL /\ lights.rm
       THEN LET r == InputEvent("LED_MISC", 0, slumber, alloc_ok)
            IN  /\ aw' = r.aw /\ nbufs' = r.nbufs
                /\ lights' = [r.lights EXCEPT !.resume = TRUE]
                /\ ev' = EvCalled(r, "LED_MISC", 0, slumber, alloc_ok)
                /\ pm' = [PmCalled(r.pm, "save", slumber, alloc_ok)
                            EXCEPT !.phase = "suspended"]
       ELSE /\ pm' = [PmCalled(pm, "save", slumber, alloc_ok)
                       EXCEPT !.phase = "suspended"]
            /\ UNCHANGED << aw, nbufs, lights, ev >>
  /\ PFrame

\* rm_hwmon_kb_led_load (.resume, .thaw, .restore)
P_Load ==
  /\ pm.phase = "suspended"
  /\ \E slumber \in BOOLEAN, alloc_ok \in BOOLEAN :
       IF kb_dev # NULL /\ lights.resume
       THEN LET r == InputEvent("LED_MISC", 1, slumber, alloc_ok)
            IN  /\ aw' = r.aw /\ nbufs' = r.nbufs
                /\ lights' = [r.lights EXCEPT !.resume = FALSE]
                /\ ev' = EvCalled(r, "LED_MISC", 1, slumber, alloc_ok)
                /\ pm' = [PmCalled(r.pm, "load", slumber, alloc_ok)
                            EXCEPT !.phase = "run"]
       ELSE /\ pm' = [PmCalled(pm, "load", slumber, alloc_ok) EXCEPT !.phase = "run"]
            /\ lights' = [lights EXCEPT !.resume = FALSE]
            /\ UNCHANGED << aw, nbufs, ev >>
  /\ PFrame

\* the attribute writer work runs alongside
P_Write == A_Write /\ UNCHANGED pm
P_Free == A_Free /\ UNCHANGED pm

Pm == P_UserLed \/ P_Save \/ P_Load \/ P_Write \/ P_Free

----------------------------------------------------------------------------
(* The attribute readers registered in attribute_configs *)

KB_ATTR_ID_FW_VERSION == 2
KB_ATTR_ID_DEVICE_NAME == 7
KB_ATTR_ID_KEY_LAYOUT == 16
KB_ATTR_ID_RM_SERIAL_NUMBER == 18
KB_ATTR_ID_CN_SERIAL_NUMBER == 19
KB_ATTR_ID_BKL_BRIGHTNESS == 82

\* element subtypes an array attribute can carry
Subtypes == {"UNSIGNED_8_BIT", "UNSIGNED_16_BIT"}
\* element counts an array attribute can carry
ArrayLens == (ATTRIBUTES_NR_OF_BKLS - 1)..(ATTRIBUTES_NR_OF_BKLS + 1)
\* the elements of a received array
ArrayData(n_len, v) == [i \in 1..n_len |-> (v + i) % (MaxByte + 1)]
\* the octets of a received string, and the buffers devm_krealloc can return
Texts == {"rM", "kb"}
Bufs == {1, 2}

\* the subtype check is the only check; the elements received are copied
reader_bl_brightness_array_NoCountCheck(r, subtype, n_len, data) ==
  IF subtype # "UNSIGNED_8_BIT" THEN [r EXCEPT !.ret = FALSE]
  ELSE [r EXCEPT !.ret = TRUE,
                 !.bl = [i \in 1..ATTRIBUTES_NR_OF_BKLS |->
                           IF i <= n_len THEN data[i] ELSE r.bl[i]]]

\* reader_bl_brightness_array(pdata, attr_res)
reader_bl_brightness_array(r, subtype, n_len, data) ==
  IF subtype # "UNSIGNED_8_BIT" THEN [r EXCEPT !.ret = FALSE]
  ELSE IF n_len # ATTRIBUTES_NR_OF_BKLS THEN [r EXCEPT !.ret = FALSE]
  ELSE [r EXCEPT !.ret = TRUE,
                 !.bl = [i \in 1..ATTRIBUTES_NR_OF_BKLS |-> data[i]]]

\* lines 229-237: *octet_attribute = devm_krealloc(...); newbuf is what it returns,
\* NULL when the allocation fails; the octets are copied into a buffer obtained
Realloc(newbuf, txt) ==
  IF newbuf # NULL THEN [buf |-> newbuf, txt |-> txt] ELSE NoStr

\* reader_octet_attribute(pdata, attr_res)
reader_octet_attribute(r, id, txt, newbuf) ==
  IF id = KB_ATTR_ID_DEVICE_NAME
    THEN [r EXCEPT !.device_name = Realloc(newbuf, txt), !.ret = (newbuf # NULL)]
  ELSE IF id = KB_ATTR_ID_RM_SERIAL_NUMBER
    THEN [r EXCEPT !.rm_serial_number = Realloc(newbuf, txt), !.ret = (newbuf # NULL)]
  ELSE IF id = KB_ATTR_ID_CN_SERIAL_NUMBER
    THEN [r EXCEPT !.cn_serial_number = Realloc(newbuf, txt), !.ret = (newbuf # NULL)]
  ELSE [r EXCEPT !.ret = FALSE]

DFrame == UNCHANGED << kb_dev, devs, lock, lights, connect_pending, wk, log,
                       req, hsp, aw, nbufs, ev, rmv, scan, pm >>

\* a reader call: the next call number and which reader it is
Called(r, reader, bad) ==
  [r EXCEPT !.seq = 1 - rd.seq, !.reader = reader, !.bad = bad]

\* KB_ATTR_ID_BKL_BRIGHTNESS is dispatched to reader_bl_brightness_array
D_BlArray ==
  /\ \E subtype \in Subtypes, n_len \in ArrayLens, v \in 0..MaxByte :
       rd' = Called(reader_bl_brightness_array(rd, subtype, n_len, ArrayData(n_len, v)),
                    "bl_brightness_array",
                    subtype # "UNSIGNED_8_BIT" \/ n_len # ATTRIBUTES_NR_OF_BKLS)
  /\ UNCHANGED ident /\ DFrame

\* a string attribute is dispatched to reader_octet_attribute
D_Octet ==
  /\ \E id \in {KB_ATTR_ID_DEVICE_NAME, KB_ATTR_ID_RM_SERIAL_NUMBER,
                 KB_ATTR_ID_CN_SERIAL_NUMBER, KB_ATTR_ID_KEY_LAYOUT},
        txt \in Texts, newbuf \in Bufs \cup {NULL} :
       rd' = Called(reader_octet_attribute(rd, id, txt, newbuf), "octet_attribute",
                    id = KB_ATTR_ID_KEY_LAYOUT \/ newbuf = NULL)
  /\ UNCHANGED ident /\ DFrame

\* KB_ATTR_ID_FW_VERSION is dispatched to reader_fw_version: stores, returns true
D_FwVersion ==
  /\ \E v \in Versions : ident' = [ident EXCEPT !.cur_ver = v]
  /\ rd' = Called([rd EXCEPT !.ret = TRUE], "fw_version", FALSE)
  /\ DFrame

\* KB_ATTR_ID_KEY_LAYOUT is dispatched to reader_key_layout, made by MAKE_READER:
\* stores the scalar, returns true
D_KeyLayout ==
  /\ \E kl \in 0..MaxLayoutAttr : ident' = [ident EXCEPT !.key_layout = kl]
  /\ rd' = Called([rd EXCEPT !.ret = TRUE], "key_layout", FALSE)
  /\ DFrame

Reader == D_BlArray \/ D_Octet \/ D_FwVersion \/ D_KeyLayout

----------------------------------------------------------------------------
(* The readers of the two indicator attributes *)

\* attribute_configs, the last two entries: the reader registered for the id
ConfigReader(id) ==
  IF id = KB_ATTR_ID_KEY_LIGHT_CAPS THEN "rm_key_light" ELSE "caps_key_light"

\* reader_rm_key_light and reader_caps_key_light, made by MAKE_READER: each
\* stores the boolean received in the field it is named after
reader_key_light(l, reader, data) ==
  IF reader = "rm_key_light" THEN [l EXCEPT !.rm = data] ELSE [l EXCEPT !.caps = data]

\* an indicator attribute received from the accessory is dispatched to the
\* reader attribute_configs registers for its id
D_KeyLight ==
  /\ \E id \in {KB_ATTR_ID_KEY_LIGHT_CAPS, KB_ATTR_ID_KEY_LIGHT_RM}, data \in BOOLEAN :
       /\ lights' = reader_key_light(lights, ConfigReader(id), data)
       /\ rd' = [Called([rd EXCEPT !.ret = TRUE], ConfigReader(id), FALSE)
                   EXCEPT !.id = id, !.data = data]
  /\ UNCHANGED << kb_dev, devs, lock, ident, connect_pending, wk, log, req, hsp,
                  aw, nbufs, ev, rmv, scan, pm >>

\* indicator changes, the writer work and indicator attributes received
Indicator == E_Event \/ A_Write \/ A_Free \/ D_KeyLight

\* the readers run on the fields as rm_hwmon_keyboard_probe left them
SpecReader == Init /\ [][Reader]_vars

----------------------------------------------------------------------------
(* The scan index of a key event, on its own *)

ScanCols == 0..(Pow2(ColBits) - 1)

SFrame == UNCHANGED << kb_dev, devs, lock, ident, lights, connect_pending, wk, log,
                       req, hsp, aw, nbufs, ev, rmv, rd, pm >>

\* line 673: the row shift of the selected layout
S_Select ==
  /\ ~scan.selected /\ scan.key = -1
  /\ scan' = [scan EXCEPT !.selected = TRUE, !.shift =
                 get_count_order(keymap_layouts[LayoutFix(ident).key_layout + 1].col)]
  /\ SFrame

\* line 828: key = MATRIX_SCAN_CODE(event->row, event->column, pdata->kb_row_shift)
S_Scan ==
  /\ scan.key = -1
  /\ scan' = [scan EXCEPT !.key = MATRIX_SCAN_CODE(scan.row, scan.col, scan.shift)]
  /\ SFrame

Scan == S_Select \/ S_Scan

\* a key event with any row and column, and any row shift in kb_row_shift
InitScan ==
  /\ kb_dev = NULL
  /\ devs = [d \in DevIds |-> DeadDev]
  /\ lock = "none"
  /\ \E kl \in 0..MaxLayoutAttr :
       ident = [key_layout |-> kl, kb_row_shift |-> 0,
                cur_ver |-> <<0, 0>>, hdr_ver |-> <<0, 0>>]
  /\ lights = [rm |-> FALSE, caps |-> FALSE, resume |-> FALSE]
  /\ connect_pending = FALSE
  /\ wk = WkIdle
  /\ log = << >>
  /\ req = "none"
  /\ hsp = HspIdle
  /\ aw = [request |-> NULL, attribute |-> 0, data_length |-> 0, payload |-> 0,
           pending |-> FALSE, pc |-> "idle", wrote |-> 0, ret |-> 0]
  /\ nbufs = 0
  /\ ev = NoEv
  /\ rmv = "idle"
  /\ rd = NoRd
  /\ pm = NoPm
  /\ \E row \in KeyRows, col \in ScanCols, shift \in 0..MaxShift :
       scan = [NoScan EXCEPT !.row = row, !.col = col, !.shift = shift]

SpecScan == InitScan /\ [][Scan]_vars

----------------------------------------------------------------------------

Worker ==
  \/ W_Start \/ W_Lock \/ W_Unregister \/ W_UnregisterNull \/ W_Reset
  \/ W_ReadInit \/ W_AuthSend \/ W_AuthWait
  \/ W_MkAlloc \/ W_MkKeymap \/ W_MkRegister \/ W_SetBrightness
  \/ W_FwCheck \/ W_FwuInit \/ W_FwuTransfer \/ W_FwuValidate \/ W_FwuReread
  \/ W_FwuCompare \/ W_FwuActivate \/ W_FwuRelease
  \/ W_FailUnregister \/ W_FailNull \/ W_Unlock

Hsp ==
  \/ H_Connect \/ H_Disconnect \/ H_DiscLock \/ H_DiscUnregister \/ H_DiscNull
  \/ H_DiscUnlock \/ H_KeyCheck \/ H_KeyReport \/ H_AuthReply \/ H_Other \/ H_Return

Remove == R_Unregister \/ R_Null

\* the accessory session: the connect work and the packet callback
Next == Worker \/ Hsp

Spec == Init /\ [][Next]_vars

\* the session is Active and at rest: a connect sequence has registered the
\* 7x16 surface and every context is idle (a state Spec reaches)
InitActive ==
  /\ kb_dev = 1
  /\ devs = [d \in DevIds |->
              IF d = 1 THEN [st |-> "reg", caps |-> TRUE, misc |-> TRUE, keymap |-> TRUE]
              ELSE DeadDev]
  /\ lock = "none"
  /\ ident = [key_layout |-> 0, kb_row_shift |-> get_count_order(keymap_layouts[1].col),
              cur_ver |-> <<1, 0>>, hdr_ver |-> <<0, 0>>]
  /\ lights = [rm |-> FALSE, caps |-> FALSE, resume |-> FALSE]
  /\ connect_pending = FALSE
  /\ wk = WkIdle
  /\ log = << >>
  /\ req = "none"
  /\ hsp = HspIdle
  /\ aw = [request |-> NULL, attribute |-> 0, data_length |-> 0, payload |-> 0,
           pending |-> FALSE, pc |-> "idle", wrote |-> 0, ret |-> 0]
  /\ nbufs = 0
  /\ ev = NoEv
  /\ rmv = "idle"
  /\ scan = NoScan
  /\ rd = NoRd
  /\ pm = NoPm

\* the indicator writer of an Active session
SpecWriter == InitActive /\ [][Writer]_vars

\* the indicator writer with the writer work scheduled fairly: a queued work
\* item is run by the system workqueue, a running one runs to its end
SpecWriterFair == SpecWriter /\ WF_vars(A_Write) /\ WF_vars(A_Free)

\* the indicators of an Active session, written and received
SpecIndicator == InitActive /\ [][Indicator]_vars

\* suspend and resume of an Active session
SpecPm == InitActive /\ [][Pm]_vars

\* a connect arrives with no disconnect before it: the surface of the previous
\* session may still be registered, the indicators and the resume flag as the
\* previous session left them
InitStale ==
  /\ \E stale \in BOOLEAN :
       /\ kb_dev = (IF stale THEN 1 ELSE NULL)
       /\ devs = [d \in DevIds |->
                   IF stale /\ d = 1
                   THEN [st |-> "reg", caps |-> TRUE, misc |-> TRUE, keymap |-> TRUE]
                   ELSE DeadDev]
  /\ lock = "none"
  /\ ident = [key_layout |-> 0, kb_row_shift |-> get_count_order(keymap_layouts[1].col),
              cur_ver |-> <<1, 0>>, hdr_ver |-> <<0, 0>>]
  /\ lights \in [rm : BOOLEAN, caps : BOOLEAN, resume : BOOLEAN]
  /\ connect_pending = TRUE
  /\ wk = WkIdle
  /\ log = << >>
  /\ req = "none"
  /\ hsp = HspIdle
  /\ aw = [request |-> NULL, attribute |-> 0, data_length |-> 0, payload |-> 0,
           pending |-> FALSE, pc |-> "idle", wrote |-> 0, ret |-> 0]
  /\ nbufs = 0
  /\ ev = NoEv
  /\ rmv = "idle"
  /\ scan = NoScan
  /\ rd = NoRd
  /\ pm = NoPm

\* one connect sequence and the authorize replies it gets
NextStale == Worker \/ H_AuthReply \/ H_Return

SpecStale == InitStale /\ [][NextStale]_vars

\* the transport has delivered a connect, which queued the connect work, and
\* now delivers a disconnect: the callback is about to take the mutex. A
\* surface of a previous session may still be registered.
InitConnDisc ==
  /\ \E stale \in BOOLEAN :
       /\ kb_dev = (IF stale THEN 1 ELSE NULL)
       /\ devs = [d \in DevIds |->
                   IF stale /\ d = 1
                   THEN [st |-> "reg", caps |-> TRUE, misc |-> TRUE, keymap |-> TRUE]
                   ELSE DeadDev]
  /\ lock = "none"
  /\ ident = [key_layout |-> 0, kb_row_shift |-> get_count_order(keymap_layouts[1].col),
              cur_ver |-> <<1, 0>>, hdr_ver |-> <<0, 0>>]
  /\ lights = [rm |-> FALSE, caps |-> FALSE, resume |-> FALSE]
  /\ connect_pending = TRUE
  /\ wk = WkIdle
  /\ log = << >>
  /\ req = "none"
  /\ hsp = [HspIdle EXCEPT !.pc = "disc_lock", !.cmd = "disconnect"]
  /\ aw = [request |-> NULL, attribute |-> 0, data_length |-> 0, payload |-> 0,
           pending |-> FALSE, pc |-> "idle", wrote |-> 0, ret |-> 0]
  /\ nbufs = 0
  /\ ev = NoEv
  /\ rmv = "idle"
  /\ scan = NoScan
  /\ rd = NoRd
  /\ pm = NoPm

\* the connect work and the disconnect run in any order; the transport delivers
\* authorize replies, and no further connect, disconnect or key event
NextConnDisc ==
  \/ Worker
  \/ H_DiscLock \/ H_DiscUnregister \/ H_DiscNull \/ H_DiscUnlock
  \/ H_AuthReply \/ H_Return

SpecConnDisc == InitConnDisc /\ [][NextConnDisc]_vars

\* the session together with driver removal
NextRemove == Next \/ Remove

SpecRemove == Init /\ [][NextRemove]_vars

----------------------------------------------------------------------------
(* What a connect sequence has done, read off its log *)

\* the statuses of the authorize requests of the sequence, in order
AuthResults == SelectSeq(log, LAMBDA e : e \in {"auth_ok", "auth_fail"})

FirstAuthOk == Len(AuthResults) >= 1 /\ AuthResults[1] = "auth_ok"
FirstAuthFailed == Len(AuthResults) >= 1 /\ AuthResults[1] = "auth_fail"

\* every step of the update attempt succeeded and the versions were equal
FwuSucceeded ==
  /\ Has(log, "fwu_init_ok") /\ Has(log, "fwu_transfer_ok")
  /\ Has(log, "fwu_validate_ok") /\ Has(log, "fwu_reread_ok")
  /\ Has(log, "fwu_ver_same") /\ Has(log, "fwu_activate_ok")

\* some step of the update attempt failed, or the versions differed
FwuFailed ==
  \/ Has(log, "fwu_init_fail") \/ Has(log, "fwu_transfer_fail")
  \/ Has(log, "fwu_validate_fail") \/ Has(log, "fwu_reread_fail")
  \/ Has(log, "fwu_ver_differ") \/ Has(log, "fwu_activate_fail")

\* register is at unlock_mutex: all it does is done, it still holds the lock
SequenceEnded == wk.pc = "unlock"

NoSurface == kb_dev = NULL /\ \A d \in DevIds : devs[d].st # "reg"

----------------------------------------------------------------------------
(* Claims *)

\* C1 as stated: a connect sequence whose attribute read, authorize request and
\* input-device creation succeed ends with the surface registered and the
\* brightness attribute written exactly once.
C1_AsStated ==
  (SequenceEnded /\ Has(log, "read_ok") /\ FirstAuthOk /\ Has(log, "mkdev_ok"))
    => (Registered /\ Count(log, "bright_write") = 1)

\* C1 amended: when in addition no firmware update succeeds in the sequence, it
\* ends with the surface registered and set_brightness called exactly once, which
\* writes the brightness attribute once unless its buffer cannot be allocated.
C1_ActiveBrightnessOnce ==
  (SequenceEnded /\ Has(log, "read_ok") /\ FirstAuthOk /\ Has(log, "mkdev_ok")
     /\ ~FwuSucceeded)
    => /\ Registered
       /\ Count(log, "bright_call") = 1
       /\ Count(log, "bright_write") = (IF Has(log, "bright_nomem") THEN 0 ELSE 1)

C1_Witness ==
  /\ SequenceEnded /\ Has(log, "read_ok") /\ FirstAuthOk /\ Has(log, "mkdev_ok")
  /\ ~FwuSucceeded /\ Registered /\ Count(log, "bright_write") = 1

\* C2: a connect sequence whose first authorize fails, that finds an eligible
\* image, whose update steps all succeed with equal versions, whose second
\* authorize succeeds and whose input device is created ends with the surface
\* registered.
C2_ActiveViaFirmware ==
  (SequenceEnded /\ AuthResults = <<"auth_fail", "auth_ok">> /\ Has(log, "img")
     /\ FwuSucceeded /\ Has(log, "mkdev_ok"))
    => Registered

C2_Witness ==
  /\ SequenceEnded /\ AuthResults = <<"auth_fail", "auth_ok">> /\ Has(log, "img")
  /\ FwuSucceeded /\ Has(log, "mkdev_ok") /\ Registered

\* C3: a connect sequence whose first authorize fails and that finds no eligible
\* image, or whose update fails, ends with no surface registered and has sent
\* exactly one authorize request.
C3_AbortWithoutUpgrade ==
  (SequenceEnded /\ FirstAuthFailed /\ (Has(log, "no_img") \/ FwuFailed))
    => (NoSurface /\ Count(log, "auth_req") = 1)

C3_Witness ==
  /\ SequenceEnded /\ FirstAuthFailed /\ FwuFailed
  /\ NoSurface /\ Count(log, "auth_req") = 1

\* C4: an update attempt whose init, transfer, validate and re-read succeed but
\* whose versions differ returns failure and never sets the image active.
C4_MismatchFailsUpdate ==
  Has(log, "fwu_ver_differ")
    => /\ ~Has(log, "fwu_activate_ok") /\ ~Has(log, "fwu_activate_fail")
       /\ ~Has(log, "fwu_returned_0")
       /\ ~wk.fw_upgraded
       /\ (wk.pc = "fwu_release" => wk.ret # 0)

C4_Witness ==
  /\ Has(log, "fwu_validate_ok") /\ Has(log, "fwu_reread_ok")
  /\ Has(log, "fwu_ver_differ") /\ Has(log, "fwu_returned_error")

\* C5: a key event is looked up and reported only on a surface that is
\* registered at that moment.
C5_KeyOnlyOnRegistered ==
  (hsp.pc = "ret" /\ hsp.reports > 0) => hsp.live

\* C6: whenever the surface reference or a device's registration changes, the
\* step is taken by the context that holds kb_connect_lock.
C6_SurfaceChangesUnderLock ==
  [][(kb_dev' # kb_dev \/ devs' # devs)
       => \/ (lock = "worker" /\ wk' # wk)
          \/ (lock = "hsp" /\ hsp' # hsp)]_vars

\* C7: when the disconnect handler has torn down a surface and is about to
\* release the lock, both LED capability bits of that surface are clear, it is
\* unregistered and the surface reference is none.
C7_DisconnectClears ==
  (hsp.pc = "disc_unlock" /\ hsp.dev # NULL)
    => /\ kb_dev = NULL
       /\ ~devs[hsp.dev].caps /\ ~devs[hsp.dev].misc
       /\ devs[hsp.dev].st = "unreg"

C7_Witness ==
  hsp.pc = "disc_unlock" /\ hsp.dev # NULL /\ kb_dev = NULL

\* C8: a key event delivered while the surface reference is none schedules the
\* connect work exactly once, returns -ENXIO and reports no key and no sync.
C8_KeyWithoutSurface ==
  [][(hsp.pc = "idle" /\ hsp'.cmd = "key" /\ kb_dev = NULL)
       => /\ hsp'.pc = "ret" /\ hsp'.ret = ENXIO
          /\ hsp'.sched = 1 /\ connect_pending'
          /\ hsp'.reports = 0 /\ hsp'.syncs = 0]_vars

C8_Witness ==
  hsp.pc = "ret" /\ hsp.cmd = "key" /\ hsp.ret = ENXIO /\ hsp.sched = 1

\* a step in which rm_hwmon_kb_event handles an indicator change
LedSubmission ==
  ev'.seq # ev.seq /\ ev'.type = "EV_LED" /\ ev'.code \in {"LED_CAPSL", "LED_MISC"}

\* the request in the slot, its payload, its being queued and the buffers alive
Slot == << aw.request, aw.payload, aw.pending, nbufs >>

\* C9: an indicator change made while a request is in the slot returns -EBUSY and
\* leaves the slot as it is; one made with the slot free is not refused as busy
\* and, unless suppressed for slumber or out of memory, is accepted and queued; a
\* finished writer leaves the slot free; at most one write buffer is ever alive.
C9_SingleSlot ==
  [][/\ nbufs' <= 1 /\ (aw'.request # NULL <=> nbufs' = 1)
     /\ (aw'.pc = "idle" /\ ~aw'.pending => aw'.request = NULL)
     /\ LedSubmission =>
          IF aw.request # NULL
          THEN ev'.ret = EBUSY /\ Slot' = Slot
          ELSE /\ ev'.ret # EBUSY
               /\ (ev'.alloc_ok /\ ~(ev'.value = 0 /\ ev'.slumber))
                    => /\ ev'.ret = 0
                       /\ Slot' = << 1, ev'.value, TRUE, 1 >>]_vars

C9_Witness ==
  /\ ev.called /\ ev.ret = EBUSY /\ ev.type = "EV_LED"
  /\ aw.request # NULL /\ nbufs = 1

\* C10: the scan index of a key event reported on the registered 7x16 surface
\* is below the size of its key-code table.
C10_IndexInsideTable ==
  (hsp.pc = "ret" /\ hsp.reports > 0 /\ hsp.live)
    => hsp.idx < KeycodeSize(0)

ReaderCall(reader) == rd'.seq # rd.seq /\ rd'.reader = reader

\* C12: a brightness array decode with a subtype other than unsigned 8 bit or
\* an element count other than 6 returns false and leaves every element of
\* bl_brightness_array as it was.
C12_BadArrayRejected ==
  [][(ReaderCall("bl_brightness_array") /\ rd'.bad)
       => (~rd'.ret /\ rd'.bl = rd.bl)]_vars

C12_Witness ==
  /\ rd.reader = "bl_brightness_array" /\ rd.bad /\ ~rd.ret
  /\ \E i \in 1..ATTRIBUTES_NR_OF_BKLS : rd.bl[i] # 0

\* the fields the readers write
Identity ==
  << rd.bl, rd.device_name, rd.rm_serial_number, rd.cn_serial_number,
     ident.key_layout, ident.cur_ver >>

\* C13: whenever a reader returns false, every field the readers write holds
\* the value it held before the call; a failed string decode leaves the
\* previous buffer reference in place.
C13_FailedDecodeKeepsFields ==
  [][(rd'.seq # rd.seq /\ ~rd'.ret) => Identity' = Identity]_vars

\* the entries a step of rm_hwmon_keyboard_update_fwu leaves in the log
FwuSteps ==
  {"fwu_init_ok", "fwu_init_fail", "fwu_transfer_ok", "fwu_transfer_fail",
   "fwu_validate_ok", "fwu_validate_fail", "fwu_activate_ok", "fwu_activate_fail"}

\* C14 as stated: a connect sequence whose first authorize succeeds performs no
\* firmware update step.
C14_AsStated ==
  FirstAuthOk => \A i \in 1..Len(log) : log[i] \notin FwuSteps

\* C14 amended: every firmware update step of a connect sequence comes after
\* the first authorize request has returned, failed or not, and after the image
\* check has found an eligible image.
C14_UpdateAfterAuthorize ==
  \A i \in 1..Len(log) :
    log[i] \in FwuSteps
      => /\ \E j \in 1..(i - 1) : log[j] \in {"auth_ok", "auth_fail"}
         /\ \E j \in 1..(i - 1) : log[j] = "img"

C14_Witness ==
  FirstAuthOk /\ Has(log, "fwu_init_ok") /\ Has(log, "fwu_transfer_ok")

\* C15: when the connect sequence is about to read the attributes, no surface
\* is registered and the surface reference is none, the cached indicator states
\* and the resume flag are false; the reset comes before every attribute read
\* and authorize request of the sequence.
C15_StaleTornDownFirst ==
  /\ wk.pc = "read"
       => /\ NoSurface
          /\ lights = [rm |-> FALSE, caps |-> FALSE, resume |-> FALSE]
  /\ \A i \in 1..Len(log) :
       log[i] \in {"read_ok", "read_fail", "auth_req"}
         => \E j \in 1..(i - 1) : log[j] = "reset"

C15_Witness ==
  /\ Has(log, "stale_unreg") /\ Has(log, "read_ok") /\ Has(log, "auth_req")
  /\ NoSurface

C17_CallbackNeverWaits ==
  ~(hsp.pc = "disc_lock" /\ lock = "worker")

\* an indicator change that returns success and puts no request in the slot
Suppressed == ev'.ret = 0 /\ aw'.request = NULL

\* an indicator change that is accepted: its write is in the slot and queued
Submitted ==
  /\ ev'.ret = 0 /\ aw'.request # NULL /\ aw'.pending
  /\ aw'.payload = ev'.value /\ aw'.attribute = LedAttribute(ev'.code)

\* C18 as stated: with the slot free, an indicator change is suppressed exactly
\* when it is the off transition of the rM key light with slumber pending; the
\* cached states are then unchanged, and every other change is submitted
\* (a write buffer being available).
C18_AsStated ==
  [][(LedSubmission /\ aw.request = NULL)
       => LET stay == ev'.code = "LED_MISC" /\ ev'.value = 0 /\ ev'.slumber
          IN  /\ Suppressed <=> stay
              /\ Suppressed => lights' = lights
              /\ (~stay /\ ev'.alloc_ok) => Submitted]_vars

\* C18 amended: with the slot free, an indicator change is suppressed exactly
\* when it is an off transition, of either indicator, with slumber pending; the
\* cached states are then unchanged; every other change is submitted unless no
\* write buffer can be allocated, and then it returns -ENOMEM.
C18_OffSuppressedInSlumber ==
  [][(LedSubmission /\ aw.request = NULL)
       => LET stay == ev'.value = 0 /\ ev'.slumber
          IN  /\ Suppressed <=> stay
              /\ Suppressed => lights' = lights
              /\ (~stay /\ ev'.alloc_ok) => Submitted
              /\ (~stay /\ ~ev'.alloc_ok) => (ev'.ret = ENOMEM /\ Slot' = Slot)]_vars

C18_Witness ==
  /\ ev.called /\ ev.type = "EV_LED" /\ ev.code = "LED_CAPSL" /\ ev.value = 0
  /\ ev.slumber /\ ev.ret = 0 /\ aw.request = NULL /\ lights.caps

\* the steps of an update attempt in order, as logged when they succeed and fail
FwuOk ==
  << "fwu_init_ok", "fwu_transfer_ok", "fwu_validate_ok", "fwu_reread_ok",
     "fwu_ver_same", "fwu_activate_ok" >>
FwuFail ==
  << "fwu_init_fail", "fwu_transfer_fail", "fwu_validate_fail", "fwu_reread_fail",
     "fwu_ver_differ", "fwu_activate_fail" >>

\* the steps the update attempt of the sequence has performed, in order
FwuLog ==
  SelectSeq(log, LAMBDA e : \E i \in 1..Len(FwuOk) : e \in {FwuOk[i], FwuFail[i]})

\* C20: the steps of an update attempt come in the order init, transfer,
\* validate, re-read, compare, activate; a failed step is the last step; the
\* attempt returns 0 exactly when all six steps succeeded and an error otherwise.
C20_UpdateStepsInOrder ==
  /\ Len(FwuLog) <= Len(FwuOk)
  /\ \A i \in 1..Len(FwuLog) :
       \/ FwuLog[i] = FwuOk[i]
       \/ FwuLog[i] = FwuFail[i] /\ i = Len(FwuLog)
  /\ wk.pc = "fwu_release" => (wk.ret = 0 <=> FwuLog = FwuOk)
  /\ Has(log, "fwu_returned_0") => FwuLog = FwuOk
  /\ Has(log, "fwu_returned_error")
       => (FwuLog # << >> /\ FwuLog[Len(FwuLog)] = FwuFail[Len(FwuLog)])

C20_Witness ==
  /\ FwuLog = << "fwu_init_ok", "fwu_transfer_ok", "fwu_validate_fail" >>
  /\ Has(log, "fwu_returned_error")

\* a step in which the named PM callback runs
PmCall(op) == pm'.seq # pm.seq /\ pm'.op = op

\* C19: at suspend with the surface registered and the rM key light on, the
\* restore flag is set and (no slumber pending, a write buffer available) the
\* light is forced off: an off write is in the slot and the cached state is
\* off. At resume with the flag set the light is restored (a write buffer
\* available): an on write is in the slot and the cached state is on. After
\* every resume the flag is false.
C19_SuspendResume ==
  [][/\ (PmCall("save") /\ Registered /\ lights.rm)
          => /\ lights'.resume
             /\ ((~pm'.slumber /\ pm'.alloc_ok)
                  => /\ ~lights'.rm
                     /\ aw'.request # NULL /\ aw'.payload = 0
                     /\ aw'.attribute = KB_ATTR_ID_KEY_LIGHT_RM)
     /\ (PmCall("load") /\ Registered /\ lights.resume)
          => (pm'.alloc_ok
               => /\ lights'.rm
                  /\ aw'.request # NULL /\ aw'.payload = 1
                  /\ aw'.attribute = KB_ATTR_ID_KEY_LIGHT_RM)
     /\ PmCall("load") => ~lights'.resume]_vars

\* C21: under fair scheduling of the writer work, a request in the slot is
\* eventually written by the worker, and a written request is eventually
\* released: the slot becomes free whether the write returned 0 or an error.
C21_SubmissionExecuted ==
  /\ (aw.request # NULL) ~> (aw.pc = "free")
  /\ (aw.pc = "free") ~> (aw.request = NULL /\ nbufs = 0)

C21_Witness ==
  /\ ev.called /\ ev.ret = 0 /\ aw.pc = "idle" /\ ~aw.pending
  /\ aw.request = NULL /\ aw.ret = EIO /\ nbufs = 0

\* C22: when rm_hwmon_keyboard_register ends with the surface registered the
\* status it returns is 0, and when it ends with no surface registered the
\* status is negative.
C22_RegisterStatus ==
  SequenceEnded => IF Registered THEN wk.ret = 0 ELSE wk.ret < 0

\* the write in the slot: the attribute id it goes to, its payload and length
PendingWrite == << aw.attribute, aw.payload, aw.data_length >>

\* C23: an indicator change refused with -EBUSY leaves the attribute id, the
\* payload and the length of the write in the slot as they were, so that the
\* writer work, which writes to the attribute id the slot names, writes the
\* request to the attribute it was accepted for.
C23_BusyLeavesPendingWrite ==
  [][(LedSubmission /\ ev'.ret = EBUSY) => PendingWrite' = PendingWrite]_vars

\* the positions in the log of the authorize requests that have returned
AuthAt == {i \in 1..Len(log) : log[i] \in {"auth_ok", "auth_fail"}}

\* the position of the most recent of them
LastAuth == CHOOSE i \in AuthAt : \A j \in AuthAt : j <= i

\* C24: when a connect sequence ends with the surface registered, its most
\* recent authorize request succeeded and no update attempt returned success
\* after it; a sequence whose re-authorize failed ends with no surface.
C24_RegisteredMeansAuthorized ==
  /\ (SequenceEnded /\ Registered)
       => /\ AuthAt # {}
          /\ log[LastAuth] = "auth_ok"
          /\ \A j \in (LastAuth + 1)..Len(log) :
               log[j] \notin {"fwu_returned_0", "fwu_activate_ok"}
  /\ (SequenceEnded /\ Len(AuthResults) = 2 /\ AuthResults[2] = "auth_fail")
       => NoSurface

C24_Witness ==
  /\ SequenceEnded /\ Registered /\ AuthResults = << "auth_ok", "auth_ok" >>
  /\ Has(log, "fwu_returned_0")

\* the disconnect has been handled and no work is queued or running
AllWorkDone ==
  hsp.pc \in {"idle", "ret"} /\ ~connect_pending /\ wk.pc = "idle" /\ lock = "none"

\* C25: after a connect followed by a disconnect and no further connect or key
\* event, once the disconnect has been handled and the connect work has run,
\* no surface is registered and the surface reference is none.
C25_ConnectThenDisconnect ==
  AllWorkDone => NoSurface

\* a step in which an indicator attribute is dispatched to its reader
KeyLightDispatch ==
  rd'.seq # rd.seq /\ rd'.reader \in {"rm_key_light", "caps_key_light"}

\* C26: for each indicator, dispatching the attribute id its changes are
\* written to sets the cached state of that indicator to the boolean received
\* and leaves the cached state of the other indicator as it was.
C26_IndicatorIdsAgree ==
  [][KeyLightDispatch
       => \A code \in {"LED_CAPSL", "LED_MISC"} :
            rd'.id = LedAttribute(code)
              => lights' = LedCache(lights, code, IF rd'.data THEN 1 ELSE 0)]_vars

====
